---- MODULE Spec2Model ----
(***************************************************************************)
(* Yao garbled-circuit MAX: the circuit synthesizer (boolean.py), the      *)
(* garbler / evaluator drivers (main.py) and the command-line front end    *)
(* (format.py).                                                            *)
(***************************************************************************)
EXTENDS Integers, Sequences, FiniteSets, TLC

\* ------------------------------------------------------------------ bounds
\* Largest set size of the runs that also evaluate the synthesized circuit.
MaxK == 3

\* Longest input file, in characters, of the runs that only normalize an input.
MaxLen == 8
\* Largest set size of those runs.
MaxInputK == 2
\* Longest input file, in characters, of the runs of the whole of main.
MaxRunLen == 4

\* The permutation bits of a run are read off a tape of TapeBits random bits:
\* wire w takes bit (w - 1) % TapeBits.
TapeBits == 4

\* A run of main draws its tape from 0..MaxRunTape.
MaxRunTape == 3

\* ------------------------------------------------------- program constants
\* format.py:232  main(4, ...): the bit width is hard-coded.
BITS == 4
\* format.py:227  "args.set_size > 2 ** 4": the largest set size accepted.
MAX_SET_SIZE == 16

VARIABLES
    bc,        \* the BooleanCircuit instance: bits, set_size, gen, inputs_alice,
               \* inputs_bob, outputs, gates
    cc,        \* the frame of complete_circuit: pc, n, alice, a, b, i
    circuit,   \* json_format["circuits"][0] once complete_circuit has emitted it
    ev,        \* the walk over the gates: pos, val, and the values fed so far
    mn,        \* the main thread: pc, set_size, the input files, bits_a, bits_b,
               \* the output dict of print_alice_to_bob, result, exit_code
    alice,     \* the Alice object (garbler), NoParty before it is created
    bob,       \* the Bob object (evaluator) and its listening thread
    net        \* the socket pair: messages in flight each way, and the transcript

vars == <<bc, cc, circuit, ev, mn, alice, bob, net>>
synthVars == <<bc, cc, circuit, ev>>
runVars == <<mn, alice, bob, net>>

\* ================================================================ boolean.py

\* get_next_id: gate_n += 1; yield gate_n
get_next_id(gate_n) == gate_n + 1

\* an / nxor / no / orr: the gate appended for the id "out" just drawn from
\* self.gen.
an(out, a, b)   == [id |-> out, type |-> "AND", in |-> <<a, b>>]
nxor(out, a, b) == [id |-> out, type |-> "NXOR", in |-> <<a, b>>]
no(out, a)      == [id |-> out, type |-> "NOT", in |-> <<a>>]
orr(out, a, b)  == [id |-> out, type |-> "OR", in |-> <<a, b>>]

\* circuit_block(a3, a2, a1, a0, b3, b2, b1, b0) on the builder state s (gen,
\* gates, outputs).  Every gate draws its id from the generator, whose state is
\* the id it yielded last; the gates are appended in Python's evaluation order
\* (arguments left to right, then the call).  The four gates built with
\* output=True are appended to outputs.
circuit_block(s, A, B) ==
    LET a3 == A[1]  a2 == A[2]  a1 == A[3]  a0 == A[4]
        b3 == B[1]  b2 == B[2]  b1 == B[3]  b0 == B[4]
        \* NXOR to check which bits are equal
        x3  == get_next_id(s.gen)
        x2  == get_next_id(x3)
        x1  == get_next_id(x2)
        x0  == get_next_id(x1)
        \* NOTs useful later
        nb0 == get_next_id(x0)
        nb1 == get_next_id(nb0)
        nb2 == get_next_id(nb1)
        nb3 == get_next_id(nb2)
        \* z = an(an(x3, x2), an(x1, x0))
        t1  == get_next_id(nb3)
        t2  == get_next_id(t1)
        z   == get_next_id(t2)
        \* x = orr(orr(orr(an(a3, nb3), an(an(x3, a2), nb2)),
        \*             an(an(x3, x2), an(a1, nb1))),
        \*         an(an(an(an(x3, x2), x1), a0), nb0))
        t3  == get_next_id(z)
        t4  == get_next_id(t3)
        t5  == get_next_id(t4)
        t6  == get_next_id(t5)
        t7  == get_next_id(t6)
        t8  == get_next_id(t7)
        t9  == get_next_id(t8)
        t10 == get_next_id(t9)
        t11 == get_next_id(t10)
        t12 == get_next_id(t11)
        t13 == get_next_id(t12)
        t14 == get_next_id(t13)
        xgt == get_next_id(t14)
        \* x = orr(x, z); nx = no(x)
        x   == get_next_id(xgt)
        nx  == get_next_id(x)
        \* the output bits
        z3  == get_next_id(nx)
        t15 == get_next_id(z3)
        t16 == get_next_id(t15)
        z2  == get_next_id(t16)
        t17 == get_next_id(z2)
        t18 == get_next_id(t17)
        z1  == get_next_id(t18)
        t19 == get_next_id(z1)
        t20 == get_next_id(t19)
        z0  == get_next_id(t20)
    IN  [gen |-> z0,
         gates |-> s.gates \o <<
            nxor(x3, a3, b3), nxor(x2, a2, b2), nxor(x1, a1, b1), nxor(x0, a0, b0),
            no(nb0, b0), no(nb1, b1), no(nb2, b2), no(nb3, b3),
            an(t1, x3, x2), an(t2, x1, x0), an(z, t1, t2),
            an(t3, a3, nb3), an(t4, x3, a2), an(t5, t4, nb2), orr(t6, t3, t5),
            an(t7, x3, x2), an(t8, a1, nb1), an(t9, t7, t8), orr(t10, t6, t9),
            an(t11, x3, x2), an(t12, t11, x1), an(t13, t12, a0),
            an(t14, t13, nb0), orr(xgt, t10, t14),
            orr(x, xgt, z), no(nx, x),
            orr(z3, a3, b3),
            an(t15, x, a2), an(t16, nx, b2), orr(z2, t15, t16),
            an(t17, x, a1), an(t18, nx, b1), orr(z1, t17, t18),
            an(t19, x, a0), an(t20, nx, b0), orr(z0, t19, t20) >>,
         outputs |-> s.outputs \o <<z3, z2, z1, z0>>,
         ret |-> <<z3, z2, z1, z0>>]

\* The builder state circuit_block threads: the instance's gen, gates, outputs.
Builder(o) == [gen |-> o.gen, gates |-> o.gates, outputs |-> o.outputs, ret |-> 0]

\* A slip in __init__: the generator started after one party's inputs only.
BooleanCircuit_half(bits, set_size) ==
    [bits |-> bits, set_size |-> set_size, gen |-> bits,
     inputs_alice |-> <<>>, inputs_bob |-> <<>>, outputs |-> <<>>, gates |-> <<>>]

\* BooleanCircuit.__init__(bits, set_size)
BooleanCircuit(bits, set_size) ==
    [bits |-> bits, set_size |-> set_size, gen |-> 2 * bits,
     inputs_alice |-> <<>>, inputs_bob |-> <<>>, outputs |-> <<>>, gates |-> <<>>]

\* The switch test with floor division (//) in place of true division.
SwitchCondition_floor(n, i) == (n - 2) \div (i + 1) = 2

\* "if (n-2) / (i+1) == 2": Python 3 true division, so the quotient is 2 exactly
\* when n-2 is twice i+1.
SwitchCondition(n, i) == (n - 2) = 2 * (i + 1)

\* The slice taken from the wrong end: self.outputs[:4].
FirstFour(outputs) ==
    IF Len(outputs) <= 4 THEN outputs ELSE SubSeq(outputs, 1, 4)

\* Lines 130-133 with the else branch lost: Bob's fresh inputs are not recorded.
add_inputs_alice_only(o, flag, fresh) ==
    [o EXCEPT !.inputs_alice = IF flag THEN @ \o fresh ELSE @]

\* Lines 130-133: add the fresh input wires to the respective participant.
add_inputs(o, flag, fresh) ==
    [o EXCEPT !.inputs_alice = IF flag THEN @ \o fresh ELSE @,
              !.inputs_bob   = IF flag THEN @ ELSE @ \o fresh]

\* self.outputs[-4:]
LastFour(outputs) ==
    IF Len(outputs) <= 4 THEN outputs
    ELSE SubSeq(outputs, Len(outputs) - 3, Len(outputs))

NoCircuit == [id |-> "none"]
NoWalk    == [pos |-> 0]
NoParty   == [pc |-> "none"]
NoMain    == [pc |-> "none"]
NoNet     == [to_bob |-> <<>>, to_alice |-> <<>>, transcript |-> <<>>]

\* No run of main is in progress.
NoRun == mn = NoMain /\ alice = NoParty /\ bob = NoParty /\ net = NoNet

\* complete_circuit, lines 114-121: n, the alice flag and the first two inputs.
cc_begin(o) ==
    [bc |-> [o EXCEPT !.inputs_alice = @ \o <<1, 2, 3, 4>>,
                      !.inputs_bob = @ \o <<5, 6, 7, 8>>],
     cc |-> [pc |-> "loop", n |-> o.set_size * 2, alice |-> TRUE,
             a |-> <<1, 2, 3, 4>>, b |-> <<5, 6, 7, 8>>, i |-> 0,
             owner |-> <<>>, switches |-> 0]]

\* complete_circuit, lines 123-136: one iteration of "for i in range(n-2)".
\* cc.owner records, per iteration, the list the fresh input was added to, and
\* cc.switches counts the executions of "alice = not alice".
cc_iteration(st) ==
    LET s  == circuit_block(Builder(st.bc), st.cc.a, st.cc.b)
        b3 == get_next_id(s.gen)
        b2 == get_next_id(b3)
        b1 == get_next_id(b2)
        b0 == get_next_id(b1)
        sw == SwitchCondition(st.cc.n, st.cc.i)
    IN  [bc |-> add_inputs([st.bc EXCEPT !.gen = b0, !.gates = s.gates,
                                         !.outputs = s.outputs],
                           st.cc.alice, <<b3, b2, b1, b0>>),
         cc |-> [st.cc EXCEPT
                   !.a = s.ret, !.b = <<b3, b2, b1, b0>>,
                   !.alice = IF sw THEN ~@ ELSE @,
                   !.owner = Append(@, IF st.cc.alice THEN "alice" ELSE "bob"),
                   !.switches = IF sw THEN @ + 1 ELSE @,
                   !.i = @ + 1]]

\* complete_circuit, lines 138-154: the last block, then json_format.
cc_finish(st) ==
    LET s == circuit_block(Builder(st.bc), st.cc.a, st.cc.b)
    IN  [bc |-> [st.bc EXCEPT !.gen = s.gen, !.gates = s.gates,
                              !.outputs = s.outputs],
         cc |-> [st.cc EXCEPT !.pc = "done"],
         circuit |-> [id    |-> <<st.bc.bits, st.cc.n>>,
                      alice |-> st.bc.inputs_alice,
                      bob   |-> st.bc.inputs_bob,
                      out   |-> LastFour(s.outputs),
                      gates |-> s.gates]]

RECURSIVE cc_loop(_)
cc_loop(st) == IF st.cc.i < st.cc.n - 2 THEN cc_loop(cc_iteration(st)) ELSE st

\* BooleanCircuit(bits, set_size).complete_circuit() as one call: the content
\* of the circuit file it writes.
complete_circuit(bits, set_size) ==
    cc_finish(cc_loop(cc_begin(BooleanCircuit(bits, set_size)))).circuit

Begin ==
    /\ cc.pc = "start"
    /\ LET st == cc_begin(bc) IN bc' = st.bc /\ cc' = st.cc
    /\ UNCHANGED <<circuit, ev>>
    /\ UNCHANGED runVars

LoopBody ==
    /\ cc.pc = "loop"
    /\ cc.i < cc.n - 2
    /\ LET st == cc_iteration([bc |-> bc, cc |-> cc]) IN bc' = st.bc /\ cc' = st.cc
    /\ UNCHANGED <<circuit, ev>>
    /\ UNCHANGED runVars

LastBlock ==
    /\ cc.pc = "loop"
    /\ cc.i = cc.n - 2
    /\ LET st == cc_finish([bc |-> bc, cc |-> cc])
       IN  bc' = st.bc /\ cc' = st.cc /\ circuit' = st.circuit
    /\ UNCHANGED ev
    /\ UNCHANGED runVars

\* ============================================ inputs, wires and evaluation

\* The value a party's file gives as 4 characters, most significant first
\* (traditional_compute reads a[i:i+bits] as a binary numeral).
ToBits(v) == <<(v \div 8) % 2, (v \div 4) % 2, (v \div 2) % 2, v % 2>>

Range(q) == {q[j] : j \in 1..Len(q)}
IndexOf(q, w) == CHOOSE j \in 1..Len(q) : q[j] = w

\* The logical function of a gate type.
GateFn(type, x) ==
    CASE type = "AND"  -> IF x[1] = 1 /\ x[2] = 1 THEN 1 ELSE 0
      [] type = "OR"   -> IF x[1] = 1 \/ x[2] = 1 THEN 1 ELSE 0
      [] type = "NXOR" -> IF x[1] = x[2] THEN 1 ELSE 0
      [] type = "NOT"  -> 1 - x[1]

Ready(val, g) == \A j \in 1..Len(g.in) : g.in[j] \in DOMAIN val

\* Walk the gates in declaration order from position pos for as long as the
\* inputs of the next gate carry a value.
RECURSIVE Walk(_, _, _)
Walk(gates, pos, val) ==
    IF pos > Len(gates) \/ ~Ready(val, gates[pos]) THEN [pos |-> pos, val |-> val]
    ELSE LET g == gates[pos]
             y == GateFn(g.type, [j \in 1..Len(g.in) |-> val[g.in[j]]])
         IN  Walk(gates, pos + 1, (g.id :> y) @@ val)

\* The wires the rest of the walk still reads: inputs of the gates from pos on,
\* and the output wires.
Live(c, pos) ==
    UNION {Range(c.gates[p].in) : p \in pos..Len(c.gates)} \cup Range(c.out)

\* in_bits[i] is the value of wire wires[i] (Alice.print 77-79, send_evaluation
\* 138-141): the 4 bits of the value with index grp go to wires 4*grp+1..4*grp+4.
Bind(wires, grp, v) ==
    [w \in {wires[4 * grp + j] : j \in 1..4} |->
        ToBits(v)[IndexOf(wires, w) - 4 * grp]]

NoValues == [w \in {} |-> 0]

\* The evaluation starts on the emitted circuit, with no wire carrying a value.
StartWalk ==
    /\ circuit # NoCircuit
    /\ ev = NoWalk
    /\ ev' = [pos |-> 1, val |-> NoValues, fed |-> 0, top |-> 0, who |-> {}]
    /\ UNCHANGED <<bc, cc, circuit>>
    /\ UNCHANGED runVars

\* The walk reaches a gate that reads an input wire: the owner's next value v
\* is bound to its four wires and the walk goes on.  ev.fed counts the values
\* bound so far, ev.top is the largest of them (max(ss) in
\* traditional_compute) and ev.who the parties that hold it.
Supply ==
    /\ ev.pos >= 1
    /\ ev.pos <= Len(circuit.gates)
    /\ LET g == circuit.gates[ev.pos]
           w == g.in[CHOOSE j \in 1..Len(g.in) :
                        /\ g.in[j] \notin DOMAIN ev.val
                        /\ \A h \in 1..(j - 1) : g.in[h] \in DOMAIN ev.val]
       IN  /\ w \in Range(circuit.alice) \cup Range(circuit.bob)
           /\ \E v \in 0..(2 ^ BITS - 1) :
                LET party == IF w \in Range(circuit.alice) THEN "alice" ELSE "bob"
                    wires == IF party = "alice" THEN circuit.alice ELSE circuit.bob
                    grp   == (IndexOf(wires, w) - 1) \div 4
                    bound == Bind(wires, grp, v)
                    r     == Walk(circuit.gates, ev.pos, bound @@ ev.val)
                    keep  == Live(circuit, r.pos)
                IN  ev' = [pos |-> r.pos,
                           val |-> [u \in DOMAIN r.val \cap keep |-> r.val[u]],
                           fed |-> ev.fed + 1,
                           top |-> IF v > ev.top THEN v ELSE ev.top,
                           who |-> IF v > ev.top \/ ev.fed = 0 THEN {party}
                                   ELSE IF v = ev.top THEN ev.who \cup {party}
                                   ELSE ev.who]
    /\ UNCHANGED <<bc, cc, circuit>>
    /\ UNCHANGED runVars

\* result[w] for w in outputs (Alice.print, line 82), once the walk is over.
Evaluated == ev.pos >= 1 /\ circuit # NoCircuit /\ ev.pos = Len(circuit.gates) + 1
StrResult == [j \in 1..Len(circuit.out) |-> ev.val[circuit.out[j]]]

InitCircuit ==
    /\ \E k \in 1..MaxK : bc = BooleanCircuit(BITS, k)
    /\ cc = [pc |-> "start"]
    /\ circuit = NoCircuit
    /\ ev = NoWalk
    /\ NoRun

NextCircuit == Begin \/ LoopBody \/ LastBlock \/ StartWalk \/ Supply

\* Synthesis followed by the evaluation of the emitted circuit.
SpecCircuit == InitCircuit /\ [][NextCircuit]_vars

\* Synthesis alone, for every set size the command line accepts.
InitSynth ==
    /\ \E k \in 1..MAX_SET_SIZE : bc = BooleanCircuit(BITS, k)
    /\ cc = [pc |-> "start"]
    /\ circuit = NoCircuit
    /\ ev = NoWalk
    /\ NoRun

NextSynth == Begin \/ LoopBody \/ LastBlock

SpecSynth == InitSynth /\ [][NextSynth]_vars

\* ================================================================= format.py

\* The characters of an input file: the two significant ones and another one.
Chars == {"0", "1", " "}

\* All file contents of at most n characters.
Contents(n) == UNION {[1..m -> Chars] : m \in 0..n}

\* The set sizes given on the command line: below the range, in it, above it.
RunSizes == {0, 1, MAX_SET_SIZE + 1}

\* int(character) for a character that is "0" or "1".
int(character) == IF character = "1" THEN 1 ELSE 0

\* Lines 126-129: read character by character and discard anything that is
\* not a 0 or 1.
RECURSIVE read_characters(_, _, _)
read_characters(fin, j, bits_x) ==
    IF j > Len(fin) THEN bits_x
    ELSE read_characters(fin, j + 1,
                         IF fin[j] = "1" \/ fin[j] = "0"
                         THEN Append(bits_x, int(fin[j])) ELSE bits_x)

\* list.pop() taken from the wrong end: pop(0).
pop_front(bits_x) == Tail(bits_x)

\* list.pop(): remove the last element.
pop(bits_x) == SubSeq(bits_x, 1, Len(bits_x) - 1)

\* Lines 137-138: while len(bits_x) < set_size * bits: append(0)
RECURSIVE pad(_, _)
pad(bits_x, want) == IF Len(bits_x) < want THEN pad(Append(bits_x, 0), want) ELSE bits_x

\* Lines 139-140: while len(bits_x) > set_size * bits: pop()
RECURSIVE truncate(_, _)
truncate(bits_x, want) == IF Len(bits_x) > want THEN truncate(pop(bits_x), want) ELSE bits_x

\* The multiple-of-bits test without its "!= 0": any remainder is accepted.
IsMalformed_never(bits_x, bits) == Len(bits_x) % bits # Len(bits_x) % bits

\* Lines 131 / 151: len(bits_x) % bits != 0
IsMalformed(bits_x, bits) == Len(bits_x) % bits # 0

\* The body of a "with open(...) as fin" block, lines 122-140 for Alice and
\* 142-160 for Bob: the bit list, or exit(1).
read_input(fin, set_size, bits) ==
    LET bits_x == read_characters(fin, 1, <<>>)
    IN  IF IsMalformed(bits_x, bits)
        THEN [exit |-> TRUE, bits |-> bits_x]
        ELSE [exit |-> FALSE,
              bits |-> truncate(pad(bits_x, set_size * bits), set_size * bits)]

\* The range test with its lower half lost.
\* Line 227: args.set_size < 1 or args.set_size > 2 ** 4
BadSetSize(set_size) == set_size < 1 \/ set_size > 2 ^ 4

\* exit(1)
Exit1(frame) == [frame EXCEPT !.pc = "exit", !.exit_code = 1]

\* The main thread after argument parsing, for the given command line and
\* the given presence of the two input files.
MainFrame(set_size, has_alice, has_bob) ==
    [pc |-> "args", set_size |-> set_size,
     files |-> [alice |-> has_alice, bob |-> has_bob],
     fin |-> <<>>, bits_a |-> <<>>, bits_b |-> <<>>,
     output |-> NoValues, correct_result |-> <<>>,
     a_inputs |-> NoValues, b_keys |-> NoValues, j |-> 0,
     result |-> <<>>, exit_code |-> -1]

\* Lines 227-232.
ParseArgs ==
    /\ mn.pc = "args"
    /\ mn' = IF BadSetSize(mn.set_size) THEN Exit1(mn) ELSE [mn EXCEPT !.pc = "circuit"]
    /\ UNCHANGED <<alice, bob, net>>
    /\ UNCHANGED synthVars

\* Lines 106-110: the circuit file for (bits, set_size), generated when it is
\* not there yet; a file left by an earlier run holds the same circuit.
MakeCircuit ==
    /\ mn.pc = "circuit"
    /\ circuit' = complete_circuit(BITS, mn.set_size)
    /\ mn' = [mn EXCEPT !.pc = "exists_a"]
    /\ UNCHANGED <<alice, bob, net, bc, cc, ev>>

\* Lines 112-115.
CheckAliceFile ==
    /\ mn.pc = "exists_a"
    /\ mn' = IF ~mn.files.alice THEN Exit1(mn) ELSE [mn EXCEPT !.pc = "exists_b"]
    /\ UNCHANGED <<alice, bob, net>>
    /\ UNCHANGED synthVars

\* Lines 117-120.
CheckBobFile ==
    /\ mn.pc = "exists_b"
    /\ mn' = IF ~mn.files.bob THEN Exit1(mn) ELSE [mn EXCEPT !.pc = "read_a"]
    /\ UNCHANGED <<alice, bob, net>>
    /\ UNCHANGED synthVars

\* Lines 122-140: Alice's input file.  mn.fin keeps the content of the file
\* read last.
ReadAlice ==
    /\ mn.pc = "read_a"
    /\ \E fin \in Contents(MaxRunLen) :
          LET r == read_input(fin, mn.set_size, BITS)
          IN  mn' = IF r.exit
                    THEN Exit1([mn EXCEPT !.fin = fin, !.bits_a = r.bits])
                    ELSE [mn EXCEPT !.fin = fin, !.bits_a = r.bits, !.pc = "read_b"]
    /\ UNCHANGED <<alice, bob, net>>
    /\ UNCHANGED synthVars

\* Lines 142-160: Bob's input file.
ReadBob ==
    /\ mn.pc = "read_b"
    /\ \E fin \in Contents(MaxRunLen) :
          LET r == read_input(fin, mn.set_size, BITS)
          IN  mn' = IF r.exit
                    THEN Exit1([mn EXCEPT !.fin = fin, !.bits_b = r.bits])
                    ELSE [mn EXCEPT !.fin = fin, !.bits_b = r.bits, !.pc = "create"]
    /\ UNCHANGED <<alice, bob, net>>
    /\ UNCHANGED synthVars

\* One with-block on its own (the two are the same code, lines 122-140 and
\* 142-160), on a longer file: the bit list is left in mn.bits_a.
ReadInput ==
    /\ mn.pc = "with"
    /\ \E fin \in Contents(MaxLen) :
          LET r == read_input(fin, mn.set_size, BITS)
          IN  mn' = IF r.exit
                    THEN Exit1([mn EXCEPT !.fin = fin, !.bits_a = r.bits])
                    ELSE [mn EXCEPT !.fin = fin, !.bits_a = r.bits,
                                    !.pc = "normalized"]
    /\ UNCHANGED <<alice, bob, net>>
    /\ UNCHANGED synthVars

InitInput ==
    /\ \E k \in 1..MaxInputK : mn = [MainFrame(k, TRUE, TRUE) EXCEPT !.pc = "with"]
    /\ alice = NoParty /\ bob = NoParty /\ net = NoNet
    /\ bc = BooleanCircuit(BITS, 1) /\ cc = [pc |-> "idle"]
    /\ circuit = NoCircuit /\ ev = NoWalk

NextInput == ReadInput

SpecInput == InitInput /\ [][NextInput]_vars

\* ============================================ garbling (yao.GarbledCircuit)

\* The wires of a circuit dictionary: its inputs and its gates' outputs.
InputWires(c) == Range(c.alice) \cup Range(c.bob)
GateIds(c) == {c.gates[p].id : p \in 1..Len(c.gates)}

Xor(x, y) == (x + y) % 2

Tapes == 0..(2 ^ TapeBits - 1)

\* The permutation bit the tape r gives wire w.
PBit(r, w) == (r \div (2 ^ ((w - 1) % TapeBits))) % 2

\* The label of wire w for the logical value v: a fresh random string, which
\* no other (wire, value) shares.
Label(w, v) == <<"L", w, v>>

\* The gate cipher: decryption succeeds with the keys and the gate id the row
\* was encrypted under, and fails otherwise.
AuthFail == <<"fail">>
Enc(ks, gid, m) == [ks |-> ks, gid |-> gid, m |-> m]
Dec(ct, ks, gid) == IF ct.ks = ks /\ ct.gid = gid THEN ct.m ELSE AuthFail

\* The garbled table of a gate: for each row (a, b) of its truth table, the
\* pair (output label, p_out xor c) encrypted under the input labels and the
\* gate id, stored at index (p_a xor a, p_b xor b); one input for NOT.
GarbledGate(g, keys, pbits) ==
    LET n    == Len(g.in)
        rows == {[at |-> [j \in 1..n |-> Xor(pbits[g.in[j]], x[j])],
                  ct |-> LET c == GateFn(g.type, x)
                         IN  Enc([j \in 1..n |-> keys[g.in[j]][x[j] + 1]], g.id,
                                 <<keys[g.id][c + 1], Xor(pbits[g.id], c)>>)] :
                 x \in [1..n -> {0, 1}]}
    IN  [at \in {row.at : row \in rows} |-> (CHOOSE row \in rows : row.at = at).ct]

\* yao.GarbledCircuit(circuit): labels and permutation bits for every wire,
\* and the garbled table of every gate.
GarbledCircuit(c, r) ==
    LET wires == InputWires(c) \cup GateIds(c)
        pbits == [w \in wires |-> PBit(r, w)]
        keys  == [w \in wires |-> <<Label(w, 0), Label(w, 1)>>]
    IN  [pbits |-> pbits, keys |-> keys,
         garbled_tables |->
            [id \in GateIds(c) |->
                GarbledGate(c.gates[CHOOSE p \in 1..Len(c.gates) : c.gates[p].id = id],
                            keys, pbits)]]

\* The evaluator: walk the gates in declaration order; decrypt the row at the
\* point bits of the input wires with their labels; an authentication failure
\* aborts the walk (val is then AuthFail).
RECURSIVE GarbledWalk(_, _, _, _)
GarbledWalk(gates, tables, pos, val) ==
    IF pos > Len(gates) THEN val
    ELSE LET g  == gates[pos]
             n  == Len(g.in)
             at == [j \in 1..n |-> val[g.in[j]][2]]
             m  == Dec(tables[g.id][at], [j \in 1..n |-> val[g.in[j]][1]], g.id)
         IN  IF m = AuthFail THEN AuthFail
             ELSE GarbledWalk(gates, tables, pos + 1, (g.id :> m) @@ val)

\* yao.evaluate: the bit revealed for each output wire is the recovered point
\* bit xor pbits_out[w].
evaluate(c, tables, pbits_out, a_inputs, b_inputs) ==
    LET val == GarbledWalk(c.gates, tables, 1, a_inputs @@ b_inputs)
    IN  IF val = AuthFail THEN AuthFail
        ELSE [w \in Range(c.out) |-> Xor(val[w][2], pbits_out[w])]

\* ================================================================== main.py

\* pbits_out taken one wire off.
pbits_out_shifted(pbits, c) == [w \in Range(c.out) |-> pbits[w - 1]]

\* YaoGarbler.__init__, lines 28-29: {w: pbits[w] for w in circuit["out"]}
pbits_out(pbits, c) == [w \in Range(c.out) |-> pbits[w]]

\* YaoGarbler.__init__, lines 19-31: the entry of a circuit.
Entry(c, r) ==
    LET garbled_circuit == GarbledCircuit(c, r)
    IN  [circuit        |-> c,
         garbled_tables |-> garbled_circuit.garbled_tables,
         keys           |-> garbled_circuit.keys,
         pbits          |-> garbled_circuit.pbits,
         pbits_out      |-> pbits_out(garbled_circuit.pbits, c)]

\* Alice._get_encr_bits
get_encr_bits(pbit, key0, key1) == <<<<key0, Xor(0, pbit)>>, <<key1, Xor(1, pbit)>>>>

\* Alice.print, lines 70-73: b_keys.
BKeys(entry) ==
    [w \in {u \in DOMAIN entry.keys : u \in Range(entry.circuit.bob)} |->
        get_encr_bits(entry.pbits[w], entry.keys[w][1], entry.keys[w][2])]

\* a_inputs with the input bit itself sent along the label.
AInputs_clear(entry, in_bits) ==
    LET a_wires == entry.circuit.alice
    IN  [w \in Range(a_wires) |->
            LET i == IndexOf(a_wires, w)
            IN  <<entry.keys[w][in_bits[i] + 1], in_bits[i]>>]

\* Alice.print, lines 77-79: a_inputs.
AInputs(entry, in_bits) ==
    LET a_wires == entry.circuit.alice
    IN  [w \in Range(a_wires) |->
            LET i == IndexOf(a_wires, w)
            IN  <<entry.keys[w][in_bits[i] + 1], Xor(entry.pbits[w], in_bits[i])>>]

\* Bob.send_evaluation, lines 138-141: b_inputs_clear.
BInputsClear(c, in_bits) ==
    [w \in Range(c.bob) |-> in_bits[IndexOf(c.bob, w)]]

\* Alice.__init__ and Bob.__init__.
AliceObject(c, input_bits, bits, r) ==
    [pc |-> "made", circuits |-> Entry(c, r), in_bits |-> input_bits, bits |-> bits]
BobObject(input_bits, bits) ==
    [pc |-> "made", in_bits |-> input_bits, bits |-> bits,
     entry |-> NoValues, a_inputs |-> NoValues, b_inputs |-> NoValues,
     j |-> 0, result |-> NoValues]

\* traditional_compute: the values of both lists, and the largest as bits.
Value(bits_x, i) == 8 * bits_x[i] + 4 * bits_x[i + 1] + 2 * bits_x[i + 2] + bits_x[i + 3]
traditional_compute(a, b, bits) ==
    LET ss == {Value(a, 4 * g + 1) : g \in 0..((Len(a) \div bits) - 1)} \cup
              {Value(b, 4 * g + 1) : g \in 0..((Len(a) \div bits) - 1)}
    IN  ToBits(CHOOSE c \in ss : \A d \in ss : d <= c)

\* The plain logical value of every wire for the given input bits.
PlainValues(c, bits_a, bits_b) ==
    Walk(c.gates, 1,
         [w \in InputWires(c) |->
             IF w \in Range(c.alice) THEN bits_a[IndexOf(c.alice, w)]
             ELSE bits_b[IndexOf(c.bob, w)]]).val

\* ------------------------------------------------ the run in three strides
\* Lines 163-168 of main with the permutation bits of any tape: the garbler
\* and the evaluator are created.
Garble ==
    /\ mn.pc = "garble"
    /\ \E r \in Tapes :
          alice' = AliceObject(circuit, mn.bits_a, BITS, r)
    /\ bob' = BobObject(mn.bits_b, BITS)
    /\ mn' = [mn EXCEPT !.pc = "transfer",
                        !.correct_result =
                            traditional_compute(mn.bits_a, mn.bits_b, BITS)]
    /\ UNCHANGED <<net, bc, cc, circuit, ev>>

\* print_alice_to_bob and the first half of Alice.print / send_result: Bob
\* holds the three fields of the setup message, Alice's input labels, and for
\* each of his wires the entry of b_keys his input bit selects.
Transfer ==
    /\ mn.pc = "transfer"
    /\ LET e      == alice.circuits
           b_keys == BKeys(e)
           clear  == BInputsClear(e.circuit, bob.in_bits)
       IN  bob' = [bob EXCEPT
                     !.pc = "evaluate",
                     !.entry = [circuit |-> e.circuit,
                                garbled_tables |-> e.garbled_tables,
                                pbits_out |-> e.pbits_out],
                     !.a_inputs = AInputs(e, alice.in_bits),
                     !.b_inputs = [w \in DOMAIN clear |-> b_keys[w][clear[w] + 1]]]
    /\ mn' = [mn EXCEPT !.pc = "result"]
    /\ UNCHANGED <<alice, net, bc, cc, circuit, ev>>

\* The second half: Bob evaluates and Alice reads the result over the out
\* wires (Alice.print, line 82).
Reveal ==
    /\ mn.pc = "result"
    /\ LET res == evaluate(bob.entry.circuit, bob.entry.garbled_tables,
                           bob.entry.pbits_out, bob.a_inputs, bob.b_inputs)
       IN  /\ bob' = [bob EXCEPT !.pc = "sent", !.result = res]
           /\ mn' = [mn EXCEPT
                       !.pc = "revealed",
                       !.result = IF res = AuthFail THEN AuthFail
                                  ELSE [j \in 1..Len(circuit.out) |->
                                           res[circuit.out[j]]]]
    /\ UNCHANGED <<alice, net, bc, cc, circuit, ev>>

\* main has read two files of four significant characters each for k = 1.
InitGarble ==
    /\ \E va, vb \in 0..(2 ^ BITS - 1) :
          mn = [MainFrame(1, TRUE, TRUE) EXCEPT
                  !.pc = "garble", !.bits_a = ToBits(va), !.bits_b = ToBits(vb)]
    /\ circuit = complete_circuit(BITS, 1)
    /\ alice = NoParty /\ bob = NoParty /\ net = NoNet
    /\ bc = BooleanCircuit(BITS, 1) /\ cc = [pc |-> "idle"] /\ ev = NoWalk

NextGarble == Garble \/ Transfer \/ Reveal

SpecGarble == InitGarble /\ [][NextGarble]_vars

\* ------------------------------------------------------- the run of main
\* A message on a socket, and what the transcript keeps of it.
Msg(from, type, wire, body) == [from |-> from, type |-> type, wire |-> wire, body |-> body]
Summary(m) ==
    [from |-> m.from, type |-> m.type, wire |-> m.wire,
     fields |-> IF m.type = "setup" THEN DOMAIN m.body ELSE {}]

\* socket.send on the garbler's and on the evaluator's side.
SendToBob(nt, m) ==
    [nt EXCEPT !.to_bob = Append(@, m), !.transcript = Append(@, Summary(m))]
SendToAlice(nt, m) ==
    [nt EXCEPT !.to_alice = Append(@, m), !.transcript = Append(@, Summary(m))]

\* The dictionary with the keys and every permutation bit already in it.
SetupOutput_full(entry) ==
    [circuit |-> entry.circuit, garbled_tables |-> entry.garbled_tables,
     pbits_out |-> entry.pbits_out, pbits |-> entry.pbits, keys |-> entry.keys]

\* print_alice_to_bob, lines 60-64: what gets sent to Bob.
SetupOutput(entry) ==
    [circuit |-> entry.circuit, garbled_tables |-> entry.garbled_tables,
     pbits_out |-> entry.pbits_out]

\* A plain send: the main thread goes on at once.
AfterSetupSend_nowait == "dump"

\* print_alice_to_bob, line 65: send_wait returns with the reply only.
AfterSetupSend == "wait_ack"

\* main, lines 163-172: the reference result, Alice, Bob, and Bob's thread.
CreateParties ==
    /\ mn.pc = "create"
    /\ \E r \in 0..MaxRunTape :
          alice' = AliceObject(circuit, mn.bits_a, BITS, r)
    /\ bob' = [BobObject(mn.bits_b, BITS) EXCEPT !.pc = "poll"]
    /\ mn' = [mn EXCEPT !.pc = "send_setup", !.fin = <<>>,
                        !.correct_result =
                            traditional_compute(mn.bits_a, mn.bits_b, BITS)]
    /\ UNCHANGED <<net, bc, cc, circuit, ev>>

\* print_alice_to_bob, lines 60-65, up to the send.
SendSetup ==
    /\ mn.pc = "send_setup"
    /\ LET output == SetupOutput(alice.circuits)
       IN  /\ net' = SendToBob(net, Msg("alice", "setup", 0, output))
           /\ mn' = [mn EXCEPT !.pc = AfterSetupSend, !.output = output]
    /\ UNCHANGED <<alice, bob, bc, cc, circuit, ev>>

\* print_alice_to_bob, line 65: the reply to send_wait arrives.
RecvAck ==
    /\ mn.pc = "wait_ack"
    /\ net.to_alice # <<>> /\ Head(net.to_alice).type = "ack"
    /\ net' = [net EXCEPT !.to_alice = Tail(@)]
    /\ mn' = [mn EXCEPT !.pc = "dump"]
    /\ UNCHANGED <<alice, bob, bc, cc, circuit, ev>>

\* print_alice_to_bob, lines 67-73: pbits and keys join the dictionary, which
\* is written to alice_output.json.
DumpOutput ==
    /\ mn.pc = "dump"
    /\ mn' = [mn EXCEPT !.pc = "print",
                        !.output = ("pbits" :> alice.circuits.pbits) @@
                                   ("keys" :> alice.circuits.keys) @@ mn.output]
    /\ UNCHANGED <<alice, bob, net, bc, cc, circuit, ev>>

\* mpc_compute and Alice.print, lines 65-81: b_keys, a_inputs, and the first
\* send of ot.get_result, Alice's input labels.
AlicePrint ==
    /\ mn.pc = "print"
    /\ LET a_inputs == AInputs(alice.circuits, alice.in_bits)
       IN  /\ net' = SendToBob(net, Msg("alice", "a_inputs", 0, a_inputs))
           /\ mn' = [mn EXCEPT !.pc = "ot_a", !.a_inputs = a_inputs,
                               !.b_keys = BKeys(alice.circuits), !.j = 1]
    /\ UNCHANGED <<alice, bob, bc, cc, circuit, ev>>

\* ot.get_result, the sender's first message of the transfer for the j-th of
\* Bob's wires.
AliceOtStart ==
    /\ mn.pc = "ot_a"
    /\ LET w == circuit.bob[mn.j]
       IN  net' = SendToBob(net, Msg("alice", "ot_a", w, <<"g^a", w>>))
    /\ mn' = [mn EXCEPT !.pc = "ot_wait"]
    /\ UNCHANGED <<alice, bob, bc, cc, circuit, ev>>

\* ot.get_result: on the receiver's message, both entries of b_keys[w] go out,
\* each under its own key; then the next wire, or the wait for the result.
AliceOtReply ==
    /\ mn.pc = "ot_wait"
    /\ net.to_alice # <<>> /\ Head(net.to_alice).type = "ot_b"
    /\ LET w  == circuit.bob[mn.j]
           ct == [c \in {0, 1} |-> [k |-> c, m |-> mn.b_keys[w][c + 1]]]
       IN  net' = SendToBob([net EXCEPT !.to_alice = Tail(@)],
                            Msg("alice", "ot_c", w, ct))
    /\ mn' = [mn EXCEPT !.j = @ + 1,
                        !.pc = IF mn.j = Len(circuit.bob) THEN "recv_result"
                               ELSE "ot_a"]
    /\ UNCHANGED <<alice, bob, bc, cc, circuit, ev>>

\* Alice.print, lines 81-82: the result arrives; str_result over the outputs.
AliceRecvResult ==
    /\ mn.pc = "recv_result"
    /\ net.to_alice # <<>> /\ Head(net.to_alice).type = "result"
    /\ LET result == Head(net.to_alice).body
       IN  mn' = [mn EXCEPT
                    !.pc = "verify",
                    !.result = IF result = AuthFail THEN AuthFail
                               ELSE [j \in 1..Len(circuit.out) |->
                                        result[circuit.out[j]]]]
    /\ net' = [net EXCEPT !.to_alice = Tail(@)]
    /\ UNCHANGED <<alice, bob, bc, cc, circuit, ev>>

\* main, lines 188-196: the verification file; main returns.
Verify ==
    /\ mn.pc = "verify"
    /\ mn' = [mn EXCEPT !.pc = "done", !.exit_code = 0]
    /\ UNCHANGED <<alice, bob, net, bc, cc, circuit, ev>>

\* Bob.listen, line 118: poll_socket yields the next message.
BobPoll ==
    /\ bob.pc = "poll"
    /\ net.to_bob # <<>>
    /\ bob' = [bob EXCEPT !.pc = "ack", !.entry = Head(net.to_bob).body]
    /\ net' = [net EXCEPT !.to_bob = Tail(@)]
    /\ UNCHANGED <<mn, alice, bc, cc, circuit, ev>>

\* Bob.listen, line 119: socket.send(True).
BobAck ==
    /\ bob.pc = "ack"
    /\ net' = SendToAlice(net, Msg("bob", "ack", 0, TRUE))
    /\ bob' = [bob EXCEPT !.pc = "recv_inputs"]
    /\ UNCHANGED <<mn, alice, bc, cc, circuit, ev>>

\* Bob.send_evaluation, lines 131-146, and the first receive of
\* ot.send_result: Alice's input labels.
BobRecvInputs ==
    /\ bob.pc = "recv_inputs"
    /\ net.to_bob # <<>> /\ Head(net.to_bob).type = "a_inputs"
    /\ bob' = [bob EXCEPT !.pc = "ot_recv", !.a_inputs = Head(net.to_bob).body,
                          !.j = 1]
    /\ net' = [net EXCEPT !.to_bob = Tail(@)]
    /\ UNCHANGED <<mn, alice, bc, cc, circuit, ev>>

\* ot.send_result, the receiver's message for his j-th wire: his input bit,
\* blinded.
BobOtChoose ==
    /\ bob.pc = "ot_recv"
    /\ net.to_bob # <<>> /\ Head(net.to_bob).type = "ot_a"
    /\ LET w == bob.entry.circuit.bob[bob.j]
       IN  net' = SendToAlice([net EXCEPT !.to_bob = Tail(@)],
                              Msg("bob", "ot_b", w, <<"blinded", w>>))
    /\ bob' = [bob EXCEPT !.pc = "ot_wait"]
    /\ UNCHANGED <<mn, alice, bc, cc, circuit, ev>>

\* ot.send_result: of the two ciphertexts Bob opens the one his input bit
\* selects.
BobOtReceive ==
    /\ bob.pc = "ot_wait"
    /\ net.to_bob # <<>> /\ Head(net.to_bob).type = "ot_c"
    /\ LET c     == bob.entry.circuit
           w     == c.bob[bob.j]
           clear == BInputsClear(c, bob.in_bits)
       IN  bob' = [bob EXCEPT
                     !.b_inputs = (w :> Head(net.to_bob).body[clear[w]].m) @@ @,
                     !.j = @ + 1,
                     !.pc = IF bob.j = Len(c.bob) THEN "evaluate" ELSE "ot_recv"]
    /\ net' = [net EXCEPT !.to_bob = Tail(@)]
    /\ UNCHANGED <<mn, alice, bc, cc, circuit, ev>>

\* ot.send_result: yao.evaluate and the send of the result; Bob.listen then
\* polls again.
BobEvaluate ==
    /\ bob.pc = "evaluate"
    /\ LET res == evaluate(bob.entry.circuit, bob.entry.garbled_tables,
                           bob.entry.pbits_out, bob.a_inputs, bob.b_inputs)
       IN  /\ net' = SendToAlice(net, Msg("bob", "result", 0, res))
           /\ bob' = [bob EXCEPT !.pc = "poll", !.result = res]
    /\ UNCHANGED <<mn, alice, bc, cc, circuit, ev>>

\* A command line and the presence of the two input files.
Init ==
    /\ \E k \in RunSizes, has_alice, has_bob \in BOOLEAN :
          mn = MainFrame(k, has_alice, has_bob)
    /\ alice = NoParty /\ bob = NoParty /\ net = NoNet
    /\ bc = BooleanCircuit(BITS, 1) /\ cc = [pc |-> "idle"]
    /\ circuit = NoCircuit /\ ev = NoWalk

Next ==
    \/ ParseArgs \/ MakeCircuit \/ CheckAliceFile \/ CheckBobFile
    \/ ReadAlice \/ ReadBob \/ CreateParties
    \/ SendSetup \/ RecvAck \/ DumpOutput
    \/ AlicePrint \/ AliceOtStart \/ AliceOtReply \/ AliceRecvResult \/ Verify
    \/ BobPoll \/ BobAck \/ BobRecvInputs \/ BobOtChoose \/ BobOtReceive
    \/ BobEvaluate

Spec == Init /\ [][Next]_vars

\* ================================================================== claims

\* C1: for every set size and all input values bound in order to the alice and
\* bob wires, the walk consumes all 2k values and the bits on the out wires are
\* the 4-bit MSB-first encoding of their maximum, ties included.
MaxCorrect ==
    Evaluated => /\ ev.fed = 2 * bc.set_size
                 /\ Len(StrResult) = BITS
                 /\ StrResult = ToBits(ev.top)

\* C1 witness: a tie between the parties on the maximum 10 with k >= 2.
MaxCorrectWitness ==
    /\ Evaluated
    /\ bc.set_size >= 2
    /\ ev.who = {"alice", "bob"}
    /\ ev.top = 10
    /\ StrResult = <<1, 0, 1, 0>>

\* C2: in the emitted circuit every gate input is an alice or bob wire or the
\* id of an earlier gate, and out holds exactly 4 wires, each a gate id.
WellFormed ==
    circuit # NoCircuit =>
        /\ \A p \in 1..Len(circuit.gates) :
              \A j \in 1..Len(circuit.gates[p].in) :
                 \/ circuit.gates[p].in[j] \in InputWires(circuit)
                 \/ \E q \in 1..(p - 1) :
                       circuit.gates[q].id = circuit.gates[p].in[j]
        /\ Len(circuit.out) = 4
        /\ \A j \in 1..Len(circuit.out) : circuit.out[j] \in GateIds(circuit)

\* C2 witness: a circuit of several blocks in which a gate reads a fresh input
\* of Bob and another reads the output of an earlier block.
WellFormedWitness ==
    /\ circuit # NoCircuit
    /\ bc.set_size >= 3
    /\ \E p \in 1..Len(circuit.gates) :
          /\ circuit.gates[p].in[1] \in GateIds(circuit)
          /\ Len(circuit.gates[p].in) = 2
          /\ circuit.gates[p].in[2] \in Range(circuit.bob)
          /\ circuit.gates[p].in[2] > 8

\* C3: the alice and bob wire lists are disjoint, hold no wire twice and hold
\* exactly k*4 wires each.
InputsSplit ==
    circuit # NoCircuit =>
        /\ Range(circuit.alice) \cap Range(circuit.bob) = {}
        /\ Len(circuit.alice) = bc.set_size * BITS
        /\ Len(circuit.bob) = bc.set_size * BITS
        /\ Cardinality(Range(circuit.alice)) = Len(circuit.alice)
        /\ Cardinality(Range(circuit.bob)) = Len(circuit.bob)

\* C3 witness: the largest set size, both parties holding 4k wires.
InputsSplitWitness ==
    /\ circuit # NoCircuit
    /\ bc.set_size = MAX_SET_SIZE
    /\ Len(circuit.alice) = 4 * MAX_SET_SIZE
    /\ Len(circuit.bob) = 4 * MAX_SET_SIZE

IsBit(character) == character \in {"0", "1"}

\* The bit list the documentation promises for a file: its '0'/'1' characters
\* in order, cut to the first k*4 or followed by zeros up to k*4.
Normalized(fin, set_size) ==
    LET sig == SelectSeq(fin, IsBit)
    IN  [j \in 1..(set_size * BITS) |->
            IF j <= Len(sig) THEN (IF sig[j] = "1" THEN 1 ELSE 0) ELSE 0]

\* C5: a file whose count of '0'/'1' characters is a multiple of 4 yields
\* exactly k*4 bits: its significant characters in order, cut at the tail or
\* padded with zeros at the tail; any other file ends the run.
InputNormalized ==
    mn.pc \in {"normalized", "exit"} =>
        IF Len(SelectSeq(mn.fin, IsBit)) % 4 = 0
        THEN /\ mn.pc = "normalized"
             /\ Len(mn.bits_a) = mn.set_size * 4
             /\ mn.bits_a = Normalized(mn.fin, mn.set_size)
        ELSE mn.pc = "exit"

\* C5 witness: eight significant characters for k = 1, the last four dropped.
InputNormalizedWitness ==
    /\ mn.pc = "normalized"
    /\ mn.set_size = 1
    /\ mn.fin = <<"0", "1", "0", "1", "1", "1", "1", "0">>
    /\ mn.bits_a = <<0, 1, 0, 1>>

\* The number of '0'/'1' characters of a file.
SigCount(fin) == Len(SelectSeq(fin, IsBit))

StartupPcs == {"args", "circuit", "exists_a", "exists_b", "read_a", "read_b", "create"}

\* C6: a run exits with code 1 only at startup, with neither party created and
\* no message sent, and only for a set size outside 1..16, a missing input file
\* or a file whose count of '0'/'1' characters is not a multiple of 4; and a run
\* that got past a check had nothing wrong at it, so that whoever is created
\* or whatever is sent, the configuration was right.
ConfigErrorsTerminal ==
    /\ mn.exit_code = 1 =>
          /\ mn.pc = "exit"
          /\ alice = NoParty /\ bob = NoParty /\ net = NoNet
          /\ \/ mn.set_size \notin 1..MAX_SET_SIZE
             \/ ~mn.files.alice
             \/ ~mn.files.bob
             \/ SigCount(mn.fin) % 4 # 0
    /\ mn.pc \notin {"args", "exit"} => mn.set_size \in 1..MAX_SET_SIZE
    /\ mn.pc \notin {"args", "circuit", "exists_a", "exit"} => mn.files.alice
    /\ mn.pc \notin {"args", "circuit", "exists_a", "exists_b", "exit"} => mn.files.bob
    /\ mn.pc \in {"read_b", "create"} => SigCount(mn.fin) % 4 = 0
    /\ mn.pc = "exit" => mn.exit_code = 1
    /\ mn.pc \in StartupPcs =>
          alice = NoParty /\ bob = NoParty /\ net = NoNet /\ mn.exit_code = -1
    /\ (alice # NoParty \/ bob # NoParty \/ net # NoNet) =>
          /\ mn.exit_code # 1
          /\ mn.set_size \in 1..MAX_SET_SIZE /\ mn.files.alice /\ mn.files.bob
          /\ Len(mn.bits_a) = 4 * mn.set_size /\ Len(mn.bits_b) = 4 * mn.set_size

\* C6 witness: Alice's file was read, Bob's has three significant characters.
ConfigErrorsWitness ==
    /\ mn.pc = "exit" /\ mn.exit_code = 1
    /\ mn.set_size = 1 /\ mn.files.alice /\ mn.files.bob
    /\ Len(mn.bits_a) = 4 /\ SigCount(mn.fin) = 3
    /\ alice = NoParty /\ bob = NoParty /\ net.transcript = <<>>

\* The place of a message in the fixed order.
Rank(e) ==
    CASE e.type = "setup"    -> 1
      [] e.type = "ack"      -> 2
      [] e.type = "a_inputs" -> 3
      [] e.type = "result"   -> 5
      [] OTHER               -> 4

Sender(e) == IF e.type \in {"ack", "ot_b", "result"} THEN "bob" ELSE "alice"

\* C7: the transcript is setup, ACK, Alice's input labels, the transfers for
\* Bob's wires in their declared order, result, each sent by its party and the
\* single ones once; the main thread is past the setup send_wait only with the
\* ACK received; Bob is past poll_socket only with the setup message received;
\* nothing follows the result, which comes after a transfer for every wire.
TranscriptOrder ==
    LET t == net.transcript
    IN  /\ \A p \in 1..Len(t) :
              /\ t[p].from = Sender(t[p])
              /\ p < Len(t) => Rank(t[p]) <= Rank(t[p + 1])
              /\ p < Len(t) /\ Rank(t[p]) # 4 => Rank(t[p]) < Rank(t[p + 1])
              /\ p <= 3 => Rank(t[p]) = p
              /\ p < Len(t) /\ Rank(t[p]) = 4 /\ Rank(t[p + 1]) = 4 =>
                    IndexOf(circuit.bob, t[p].wire) <= IndexOf(circuit.bob, t[p + 1].wire)
              /\ Rank(t[p]) = 4 => t[p].wire \in Range(circuit.bob)
              /\ Rank(t[p]) = 5 =>
                    /\ p = Len(t)
                    /\ \A w \in Range(circuit.bob) :
                          \E q \in 1..(p - 1) : t[q].type = "ot_c" /\ t[q].wire = w
        /\ mn.pc \in {"dump", "print", "ot_a", "ot_wait", "recv_result", "verify", "done"} =>
              /\ Len(t) >= 2 /\ t[2].type = "ack"
              /\ \A q \in 1..Len(net.to_alice) : net.to_alice[q].type # "ack"
        /\ mn.pc \in {"send_setup", "wait_ack"} => Len(t) <= 2
        /\ bob # NoParty /\ (bob.pc # "poll" \/ Len(t) >= 2) =>
              /\ Len(t) >= 1 /\ t[1].type = "setup"
              /\ DOMAIN bob.entry = {"circuit", "garbled_tables", "pbits_out"}
              /\ \A q \in 1..Len(net.to_bob) : net.to_bob[q].type # "setup"

\* C7 witness: a complete run, sixteen messages for the four wires of Bob.
TranscriptOrderWitness ==
    /\ mn.pc = "done"
    /\ Len(net.transcript) = 4 + 3 * Len(circuit.bob)
    /\ net.transcript[Len(net.transcript)].type = "result"
    /\ net.to_alice = <<>> /\ net.to_bob = <<>>

SetupFields == {"circuit", "garbled_tables", "pbits_out"}

\* The body of a setup message is what C8 allows: the three fields, pbits_out
\* being the permutation bits of the out wires.
SetupBodyOk(body) ==
    /\ DOMAIN body = SetupFields
    /\ DOMAIN body.pbits_out = Range(circuit.out)
    /\ \A w \in Range(circuit.out) : body.pbits_out[w] = alice.circuits.pbits[w]
    /\ body.circuit = circuit
    /\ body.garbled_tables = alice.circuits.garbled_tables

\* C8: every setup message, sent, in flight or received, carries exactly
\* circuit, garbled_tables and pbits_out, the latter over the out wires only;
\* and the dictionary of print_alice_to_bob holds keys or pbits only once the
\* send of the setup message has completed.
SetupMessageFields ==
    /\ \A p \in 1..Len(net.transcript) :
          net.transcript[p].type = "setup" => net.transcript[p].fields = SetupFields
    /\ \A p \in 1..Len(net.to_bob) :
          net.to_bob[p].type = "setup" => SetupBodyOk(net.to_bob[p].body)
    /\ bob # NoParty /\ bob.entry # NoValues => SetupBodyOk(bob.entry)
    /\ mn.output # NoValues =>
          /\ SetupFields \subseteq DOMAIN mn.output
          /\ DOMAIN mn.output # SetupFields =>
                /\ DOMAIN mn.output = SetupFields \cup {"pbits", "keys"}
                /\ Len(net.transcript) >= 2
                /\ net.transcript[1].type = "setup"
                /\ net.transcript[2].type = "ack"
                /\ bob.entry # NoValues

\* C8 witness: the dictionary was completed for the dump after Bob took the
\* three fields, and some wire outside out has permutation bit 1.
SetupMessageWitness ==
    /\ mn.pc = "print"
    /\ DOMAIN mn.output = SetupFields \cup {"pbits", "keys"}
    /\ DOMAIN bob.entry = SetupFields
    /\ \E w \in DOMAIN mn.output.pbits :
          w \notin Range(circuit.out) /\ mn.output.pbits[w] = 1

Encoded(w, v) ==
    <<alice.circuits.keys[w][v + 1], (v + alice.circuits.pbits[w]) % 2>>

\* The labels of the wires outside Bob's inputs: Alice's and the gates'.
ForeignLabels ==
    {alice.circuits.keys[w][v + 1] :
        w \in DOMAIN alice.circuits.keys \ Range(circuit.bob), v \in {0, 1}}

\* C11: once Alice.print has built them, a_inputs holds for the Alice wire at
\* position i the pair (keys[w][a_i], pbits[w] xor a_i) and nothing else, and
\* b_keys holds for exactly Bob's wires the pairs ((L0, 0 xor p_w),
\* (L1, 1 xor p_w)); what Bob holds for an input wire is the label of its
\* logical value v with the point bit v xor p_w; and every transfer offers the
\* two entries of b_keys of one of Bob's wires, never a label of an Alice wire
\* or of a gate.
InputEncoding ==
    /\ mn.b_keys # NoValues =>
          /\ DOMAIN mn.a_inputs = Range(circuit.alice)
          /\ \A i \in 1..Len(circuit.alice) :
                mn.a_inputs[circuit.alice[i]] = Encoded(circuit.alice[i], mn.bits_a[i])
          /\ DOMAIN mn.b_keys = Range(circuit.bob)
          /\ \A w \in Range(circuit.bob) :
                mn.b_keys[w] = <<Encoded(w, 0), Encoded(w, 1)>>
    /\ bob # NoParty =>
          /\ \A w \in DOMAIN bob.a_inputs :
                /\ w \in Range(circuit.alice)
                /\ bob.a_inputs[w] =
                      Encoded(w, mn.bits_a[IndexOf(circuit.alice, w)])
          /\ \A w \in DOMAIN bob.b_inputs :
                /\ w \in Range(circuit.bob)
                /\ bob.b_inputs[w] =
                      Encoded(w, mn.bits_b[IndexOf(circuit.bob, w)])
    /\ \A p \in 1..Len(net.to_bob) :
          LET m == net.to_bob[p]
          IN  /\ m.type = "a_inputs" =>
                    \A w \in DOMAIN m.body :
                       /\ w \in Range(circuit.alice)
                       /\ m.body[w] =
                             Encoded(w, mn.bits_a[IndexOf(circuit.alice, w)])
              /\ m.type = "ot_c" =>
                    /\ m.wire \in Range(circuit.bob)
                    /\ \A v \in {0, 1} :
                          /\ m.body[v].m = Encoded(m.wire, v)
                          /\ m.body[v].m[1] \notin ForeignLabels

\* C11 witness: all four transfers are through; wire 1 of Alice and wire 5 of
\* Bob have permutation bit 1 and carry the input bit 1, so that both labels
\* travel with the point bit 0.
InputEncodingWitness ==
    /\ bob # NoParty /\ bob.pc = "evaluate"
    /\ DOMAIN bob.b_inputs = Range(circuit.bob)
    /\ alice.circuits.pbits[1] = 1 /\ alice.circuits.pbits[5] = 1
    /\ mn.bits_a[1] = 1 /\ mn.bits_b[1] = 1
    /\ bob.a_inputs[1] = <<Label(1, 1), 0>>
    /\ bob.b_inputs[5] = <<Label(5, 1), 0>>
    /\ mn.b_keys[5] = <<<<Label(5, 0), 1>>, <<Label(5, 1), 0>>>>

\* C10: in iteration i (0-based) the fresh input goes to Alice exactly when i
\* is not after the iteration with (n-2)/(i+1) == 2, and to Bob afterwards; the
\* flag is switched once for k >= 2 (never back) and never for k = 1.
OwnershipPolicy ==
    cc.pc \in {"loop", "done"} =>
        LET n == 2 * bc.set_size
        IN  /\ \A j \in 1..Len(cc.owner) :
                  (cc.owner[j] = "alice") <=> (\E m \in j..(n - 2) : n - 2 = 2 * m)
            /\ cc.alice <=> (cc.switches = 0)
            /\ cc.switches <= 1
            /\ cc.pc = "done" =>
                  /\ Len(cc.owner) = n - 2
                  /\ cc.switches = IF bc.set_size >= 2 THEN 1 ELSE 0

\* C10 witness: k = 5, where 8 // 3 and 8 // 4 are both 2 but only 8 / 4 is.
OwnershipPolicyWitness ==
    /\ cc.pc = "done"
    /\ bc.set_size = 5
    /\ cc.owner = <<"alice", "alice", "alice", "alice", "bob", "bob", "bob", "bob">>
    /\ cc.switches = 1

====
